---- MODULE Spec2Model ----
(***************************************************************************)
(* Model of cudarray.CUDArray (src/cudarray/cudarray.py): array handles    *)
(* over one linear device buffer, the indexing engine of __getitem__, the  *)
(* write path of __setitem__, view(), host materialization (__array__) and *)
(* the operator dispatch to the elementwise layer.                         *)
(***************************************************************************)
EXTENDS Integers, Sequences, FiniteSets, TLC

VARIABLES handles, buf, last

vars == <<handles, buf, last>>

(***************************************************************************)
(* Bounds of the model.                                                    *)
(***************************************************************************)
MaxNdim == 2
MaxExt == 3
MaxRecursion == 2
MaxHandles == 2

(***************************************************************************)
(* Python values.  An optional attribute (slice.start, slice.stop,         *)
(* slice.step) is the empty set for None and a singleton for a number.     *)
(***************************************************************************)
None == {}

Some(n) == {n}

Val(o) == CHOOSE x \in o : TRUE

IntIdx(i) == [t |-> "int", v |-> i, start |-> None, stop |-> None, step |-> None]

SliceIdx(a, b, c) == [t |-> "slice", v |-> 0, start |-> a, stop |-> b, step |-> c]

EllipsisIdx == [t |-> "ellipsis", v |-> 0, start |-> None, stop |-> None, step |-> None]

\* An index element that is neither an int, a slice nor Ellipsis (a float, a string).
OtherIdx == [t |-> "other", v |-> 0, start |-> None, stop |-> None, step |-> None]

FullSlice == SliceIdx(None, None, None)

\* What the caller passes as `indices`: a plain int (handle[i]), a tuple
\* (handle[a, b]), a list (handle[[a, b]]) or a bare slice / Ellipsis (handle[a:b]).
IntArg(i) == [kind |-> "int", i |-> i, seq |-> <<>>]

SeqArg(kind, seq) == [kind |-> kind, i |-> 0, seq |-> seq]

BareArg(e) == [kind |-> "bare", i |-> 0, seq |-> <<e>>]

NoArg == [kind |-> "none", i |-> 0, seq |-> <<>>]

(***************************************************************************)
(* _prod: reduce(operator.mul, x, 1).                                      *)
(***************************************************************************)
RECURSIVE _prod(_)
_prod(x) == IF x = <<>> THEN 1 ELSE _prod(SubSeq(x, 1, Len(x) - 1)) * x[Len(x)]

(***************************************************************************)
(* Outcome of __getitem__: the view (shape, offset into the receiver's     *)
(* storage, size of the ArrayData view) or the exception raised.           *)
(***************************************************************************)
ViewResult(view_shape, offset, view_size) ==
    [err |-> "none", shape |-> view_shape, offset |-> offset, size |-> view_size]

Raise(e) == [err |-> e, shape |-> <<>>, offset |-> 0, size |-> 0]

\* FastPath with the offset not scaled by the size of a row.
FastPathUnscaled(shape, i) ==
    LET view_shape == SubSeq(shape, 2, Len(shape))
    IN ViewResult(view_shape, i, _prod(view_shape))

\* Single-index speedup case, lines 156-164.
FastPath(shape, i) ==
    LET view_shape == SubSeq(shape, 2, Len(shape))
        view_size == _prod(view_shape)
        offset == i * view_size
    IN ViewResult(view_shape, offset, view_size)

\* TooMany off by one: a sequence one longer than the shape passes.
TooManyOffByOne(indices, shape) == Len(indices) > Len(shape) + 1

\* Line 167: len(indices) > len(self.shape).
TooMany(indices, shape) == Len(indices) > Len(shape)

\* Line 203: rest_must_be_contiguous and view_dim > 1 and view_dim < dim.
ContiguityViolation(rest, view_dim, dim) == rest /\ view_dim > 1 /\ view_dim < dim

\* NextRest with the flag never raised.
NextRestNeverSet(rest, view_dim) == rest

\* Lines 206-207: if view_dim > 1: rest_must_be_contiguous = True.
NextRest(rest, view_dim) == IF view_dim > 1 THEN TRUE ELSE rest

\* Lines 188-190: a slice is refused when idx.step is not None.
StepRefused(idx) == idx.step # None

\* Lines 174-187: start and stop of dimension `dim` under index element idx
\* (idx is an int or a slice; an unsupplied dimension is the full range).
StartOf(supplied, idx, dim) ==
    IF ~supplied THEN 0
    ELSE IF idx.t = "int" THEN idx.v
    ELSE IF idx.start # None THEN Val(idx.start) ELSE 0

StopOf(supplied, idx, dim) ==
    IF ~supplied THEN dim
    ELSE IF idx.t = "int" THEN idx.v + 1
    ELSE IF idx.stop # None THEN Val(idx.stop) ELSE dim

\* [slice(None)]*diff
Fulls(diff) == [j \in 1..diff |-> FullSlice]

\* Line 193: indices[:i] + [slice(None)]*diff + indices[i:], i counted from 1 here.
\* indices[i:] starts at the Ellipsis itself.
Expand(indices, i, diff) ==
    SubSeq(indices, 1, i - 1) \o Fulls(diff) \o SubSeq(indices, i, Len(indices))

RECURSIVE GetItemSeq(_, _, _, _)
RECURSIVE Walk(_, _, _, _, _, _, _, _)

\* The loop of lines 170-207 from dimension i on, then lines 209-216.
Walk(shape, indices, kind, depth, i, view_shape, rest, offset) ==
    IF i > Len(shape)
    THEN ViewResult(view_shape, offset, _prod(view_shape))
    ELSE LET dim == shape[i]
             supplied == i <= Len(indices)
             idx == IF supplied THEN indices[i] ELSE FullSlice
         IN IF supplied /\ idx.t = "slice" /\ StepRefused(idx)
            THEN Raise("NotImplementedError")
            ELSE IF supplied /\ idx.t = "ellipsis"
            THEN IF kind = "tuple"
                 THEN Raise("TypeError")   \* tuple + list
                 ELSE GetItemSeq(shape,
                                 Expand(indices, i, Len(shape) - Len(indices)),
                                 "list", depth + 1)
            ELSE IF supplied /\ idx.t = "other"
            THEN Raise("IndexError")
            ELSE LET start == StartOf(supplied, idx, dim)
                     stop == StopOf(supplied, idx, dim)
                     append_dim == ~(supplied /\ idx.t = "int")
                     view_dim == stop - start
                 IN IF ContiguityViolation(rest, view_dim, dim)
                    THEN Raise("NotImplementedError")
                    ELSE Walk(shape, indices, kind, depth, i + 1,
                              IF append_dim THEN Append(view_shape, view_dim)
                                            ELSE view_shape,
                              NextRest(rest, view_dim),
                              offset * dim + start)

\* Lines 166-216 for a sequence argument.  The interpreter ends a recursion
\* deeper than its limit with RuntimeError.
GetItemSeq(shape, indices, kind, depth) ==
    IF depth > MaxRecursion THEN Raise("RuntimeError")
    ELSE IF TooMany(indices, shape) THEN Raise("IndexError")
    ELSE Walk(shape, indices, kind, depth, 1, <<>>, FALSE, 0)

\* CUDArray.__getitem__, lines 155-216.  len() of a bare slice or Ellipsis
\* raises TypeError at line 167.
GetItem(shape, arg) ==
    IF arg.kind = "int" THEN FastPath(shape, arg.i)
    ELSE IF arg.kind = "bare" THEN Raise("TypeError")
    ELSE GetItemSeq(shape, arg.seq, arg.kind, 0)

(***************************************************************************)
(* Element kinds.  base.float_, base.int_ and base.bool_ are the canonical *)
(* storage kinds of the package; the boolean storage kind is not numpy's   *)
(* bool, which is why __init__ records isbool separately.                  *)
(***************************************************************************)
BaseFloat == "float_"

BaseInt == "int_"

BaseBool == "bool_"

\* Lines 17-28 of __init__: (resolved storage dtype, isbool).
Canon(dtype, np_dtype) ==
    LET given == IF dtype = "None"
                 THEN IF np_dtype = "None" THEN BaseFloat ELSE np_dtype
                 ELSE dtype
    IN IF given = "float64" THEN [dtype |-> BaseFloat, isbool |-> FALSE]
       ELSE IF given = "int64" THEN [dtype |-> BaseInt, isbool |-> FALSE]
       ELSE IF given = "bool" THEN [dtype |-> BaseBool, isbool |-> TRUE]
       ELSE [dtype |-> given, isbool |-> FALSE]

\* CUDArray(shape, np_data=...) or CUDArray(shape): lines 11-32, a fresh buffer.
\* off is the position of the handle's ArrayData in the device buffer.
NewHandle(shape, np_dtype) ==
    LET c == Canon("None", np_dtype)
    IN [shape |-> shape, dtype |-> c.dtype, isbool |-> c.isbool,
        off |-> 0, parent |-> 0, how |-> "new"]

\* CUDArray(shape, dtype, None, array_data): lines 11-34, a borrowed buffer.
\* The dtype property (lines 56-58) is the dtype of the ArrayData.
Borrow(shape, dtype, off, parent, how) ==
    LET c == Canon(dtype, "None")
    IN [shape |-> shape, dtype |-> dtype, isbool |-> c.isbool,
        off |-> off, parent |-> parent, how |-> how]

\* size property, lines 72-74.
Size(h) == _prod(h.shape)

\* view(), lines 80-81: same shape, self.dtype, the same ArrayData.
ViewOf(h, p) == Borrow(h.shape, h.dtype, h.off, p, "view")

\* Lines 161-164 and 213-216: the handle over ArrayData(view_size, self.dtype,
\* owner=self._data, offset=offset).
ViewHandle(h, p, res) == Borrow(res.shape, h.dtype, h.off + res.offset, p, "getitem")

\* astype(np.dtype('bool')) of one stored element.
AsBool(x) == IF x # 0 THEN 1 ELSE 0

\* __array__, lines 36-41: the host array (element kind, shape, values in C order).
Array(b, h) ==
    [kind |-> IF h.isbool THEN "bool" ELSE h.dtype,
     shape |-> h.shape,
     vals |-> [j \in 0..(Size(h) - 1) |->
                 IF h.isbool THEN AsBool(b[h.off + j]) ELSE b[h.off + j]]]

\* base.copyto(view, c) with a scalar c: every element of the view becomes c.
\* Cells outside the modelled buffer are not part of the state.
CopyTo(b, off, size, c) ==
    [a \in DOMAIN b |-> IF off <= a /\ a < off + size THEN c ELSE b[a]]

\* SetItemBuf with the copy issued whether or not the view was computed: on a
\* failure the source is copied into the receiver itself.
SetItemBufUnchecked(b, h, res, c) ==
    IF res.err # "none" THEN CopyTo(b, h.off, Size(h), c)
    ELSE CopyTo(b, h.off + res.offset, res.size, c)

\* __setitem__, lines 218-220: the buffer after handle[indices] = c, where res is
\* the outcome of line 219; an exception there leaves line 220 unexecuted.
SetItemBuf(b, h, res, c) ==
    IF res.err # "none" THEN b
    ELSE CopyTo(b, h.off + res.offset, res.size, c)

(***************************************************************************)
(* Operator surface, lines 86-153: the call each hook makes into the       *)
(* elementwise layer (function, first operand, second operand, out).       *)
(***************************************************************************)
Call(fn, a, b, out) == [fn |-> fn, a |-> a, b |-> b, out |-> out]

NoCall == Call("none", "none", "none", "none")

Plain == {"__add__", "__sub__", "__mul__", "__div__", "__pow__"}

Reflected == {"__radd__", "__rsub__", "__rmul__", "__rdiv__", "__rpow__"}

InPlace == {"__iadd__", "__isub__", "__imul__", "__idiv__", "__ipow__"}

Comparison == {"__eq__", "__gt__", "__ge__", "__lt__", "__le__", "__ne__"}

Unary == {"__neg__", "__ineg__"}

Methods == Plain \cup Reflected \cup InPlace \cup Comparison \cup Unary

FnOf(m) ==
    CASE m \in {"__add__", "__radd__", "__iadd__"} -> "add"
      [] m \in {"__sub__", "__rsub__", "__isub__"} -> "subtract"
      [] m \in {"__mul__", "__rmul__", "__imul__"} -> "multiply"
      [] m \in {"__div__", "__rdiv__", "__idiv__"} -> "divide"
      [] m \in {"__pow__", "__rpow__", "__ipow__"} -> "power"
      [] m = "__eq__" -> "equal"
      [] m = "__gt__" -> "greater"
      [] m = "__ge__" -> "greater_equal"
      [] m = "__lt__" -> "less"
      [] m = "__le__" -> "less_equal"
      [] m = "__ne__" -> "not_equal"
      [] m \in Unary -> "negative"

Dispatch(m) ==
    IF m \in Plain \cup Reflected \cup Comparison
    THEN Call(FnOf(m), "self", "other", "none")
    ELSE IF m \in InPlace THEN Call(FnOf(m), "self", "other", "self")
    ELSE IF m = "__neg__" THEN Call(FnOf(m), "self", "none", "none")
    ELSE Call(FnOf(m), "self", "none", "self")

(***************************************************************************)
(* Inputs.                                                                 *)
(***************************************************************************)
Shapes == UNION {[1..n -> 0..MaxExt] : n \in 0..MaxNdim}

NpKinds == {"None", "float64", "float32", "int64", "bool"}

\* Index elements tried on every dimension: in-range and out-of-range integers,
\* full, partial, single-element and empty slices, a slice with a step, Ellipsis.
Elems ==
    {IntIdx(0), IntIdx(1), IntIdx(MaxExt - 1)}
    \cup {FullSlice,
          SliceIdx(Some(1), None, None),
          SliceIdx(None, Some(MaxExt - 1), None),
          SliceIdx(Some(0), Some(1), None),
          SliceIdx(Some(2), Some(2), None),
          SliceIdx(None, None, Some(1)),
          EllipsisIdx}

\* Elements of the sequences that may be longer than the shape.
FewElems == {IntIdx(1), FullSlice, SliceIdx(Some(0), Some(2), Some(2)), OtherIdx}

HasEllipsis(seq) == \E j \in 1..Len(seq) : seq[j].t = "ellipsis"

\* A list argument differs from a tuple only at line 193.
KindsFor(seq) == IF HasEllipsis(seq) THEN {"tuple", "list"} ELSE {"tuple"}

SeqArgs(seqs) == UNION {{SeqArg(k, s) : k \in KindsFor(s)} : s \in seqs}

\* Every argument tried on a handle of n dimensions.
ArgsFor(n) ==
    {IntArg(i) : i \in 0..(MaxExt - 1)}
    \cup {BareArg(SliceIdx(Some(0), Some(2), None)), BareArg(EllipsisIdx)}
    \cup SeqArgs(UNION {[1..k -> Elems] : k \in 0..n})
    \cup SeqArgs(UNION {[1..k -> FewElems] : k \in 1..(n + 1)})

\* The arguments of the multi-step specification.
Partial == SliceIdx(Some(1), None, None)

FewArgs ==
    {IntArg(1),
     SeqArg("tuple", <<Partial>>),
     SeqArg("tuple", <<FullSlice, IntIdx(1)>>),
     SeqArg("tuple", <<Partial, Partial>>),
     SeqArg("tuple", <<SliceIdx(None, None, Some(2))>>),
     SeqArg("tuple", <<OtherIdx>>),
     SeqArg("list", <<EllipsisIdx>>),
     SeqArg("tuple", <<IntIdx(0), IntIdx(0), IntIdx(0)>>)}

\* The arguments written through in the multi-step specification.
SetArgs ==
    {SeqArg("tuple", <<Partial>>),
     SeqArg("tuple", <<IntIdx(1), Partial>>),
     SeqArg("tuple", <<Partial, Partial>>),
     SeqArg("tuple", <<OtherIdx>>),
     SeqArg("tuple", <<IntIdx(0), IntIdx(0), IntIdx(0)>>)}

\* The in-place hooks of the multi-step specification.
FewInPlace == {"__iadd__", "__ineg__"}

RootShapes == {<<MaxExt, MaxExt>>}

RootKinds == NpKinds

WriteVals == {1}

(***************************************************************************)
(* State: the handles made so far, the device buffer of the root handle,   *)
(* and the last operation with its outcome: whether it constructed an      *)
(* ArrayData view (viewed) and whether it called base.copyto (copied).     *)
(***************************************************************************)
Op(op, h, arg, res, viewed, copied, method, call) ==
    [op |-> op, h |-> h, arg |-> arg, res |-> res, viewed |-> viewed,
     copied |-> copied, method |-> method, call |-> call]

NoRes == Raise("n/a")

InitWith(shapes, kinds) ==
    \E shape \in shapes, k \in kinds :
        /\ handles = <<NewHandle(shape, k)>>
        /\ buf = [a \in 0..(_prod(shape) - 1) |-> 0]
        /\ last = Op("new", 1, NoArg, NoRes, FALSE, FALSE, "none", NoCall)

Init == InitWith(RootShapes, RootKinds)

InitOne == InitWith(Shapes, {"None"})

\* v = handles[h][arg]
GetItemAct(h, arg) ==
    LET res == GetItem(handles[h].shape, arg)
    IN /\ Len(handles) < MaxHandles
       /\ handles' = IF res.err = "none"
                     THEN Append(handles, ViewHandle(handles[h], h, res))
                     ELSE handles
       /\ last' = Op("getitem", h, arg, res, res.err = "none", FALSE, "none", NoCall)
       /\ UNCHANGED buf

\* handles[h][arg] = c
SetItemAct(h, arg, c) ==
    LET res == GetItem(handles[h].shape, arg)
    IN /\ buf' = SetItemBuf(buf, handles[h], res, c)
       /\ last' = Op("setitem", h, arg, res, res.err = "none", res.err = "none",
                     "none", NoCall)
       /\ UNCHANGED handles

\* v = handles[h].view()
ViewAct(h) ==
    /\ Len(handles) < MaxHandles
    /\ handles' = Append(handles, ViewOf(handles[h], h))
    /\ last' = Op("view", h, NoArg, NoRes, FALSE, FALSE, "none", NoCall)
    /\ UNCHANGED buf

\* An operator hook of handles[h].  An in-place hook makes the elementwise layer
\* write its result into the receiver's storage; the result is an input here.
OperatorAct(h, m, v) ==
    LET call == Dispatch(m)
    IN /\ last' = Op("operator", h, NoArg, NoRes, FALSE, FALSE, m, call)
       /\ buf' = IF call.out = "self"
                 THEN CopyTo(buf, handles[h].off, Size(handles[h]), v)
                 ELSE buf
       /\ UNCHANGED handles

\* Handles sharing one buffer, operated on in any order.
Next ==
    \/ \E h \in 1..Len(handles), arg \in FewArgs : GetItemAct(h, arg)
    \/ \E h \in 1..Len(handles), arg \in SetArgs, c \in WriteVals : SetItemAct(h, arg, c)
    \/ \E h \in 1..Len(handles) : ViewAct(h)
    \/ \E h \in 1..Len(handles), m \in FewInPlace, v \in WriteVals : OperatorAct(h, m, v)

Spec == Init /\ [][Next]_vars

\* One operation on a fresh handle, over every argument and every operator hook.
Fresh == last.op = "new"

NextOne ==
    \/ Fresh /\ \E arg \in ArgsFor(Len(handles[1].shape)) : GetItemAct(1, arg)
    \/ Fresh /\ \E arg \in ArgsFor(Len(handles[1].shape)), c \in WriteVals :
                    SetItemAct(1, arg, c)
    \/ Fresh /\ ViewAct(1)
    \/ Fresh /\ \E m \in Methods, v \in WriteVals : OperatorAct(1, m, v)

SpecOne == InitOne /\ [][NextOne]_vars

(***************************************************************************)
(* Vocabulary of the properties: what an index expression selects,         *)
(* independently of how __getitem__ computes it.                           *)
(***************************************************************************)
RECURSIVE Product(_)
Product(s) == IF s = <<>> THEN 1 ELSE Head(s) * Product(Tail(s))

\* Whether the handle's extent lies inside the modelled device buffer.
InBuffer(b, h) == \A j \in 0..(Size(h) - 1) : (h.off + j) \in DOMAIN b

\* The receiver of the last operation.
Recv == handles[last.h]

IsIndexing == last.op \in {"getitem", "setitem"}

IsSeqArg == last.arg.kind \in {"tuple", "list"}

\* The range [lo, hi) a slice or an integer takes of a dimension of extent dim.
Lo(e, dim) == IF e.t = "int" THEN e.v ELSE IF e.start = None THEN 0 ELSE Val(e.start)

Hi(e, dim) == IF e.t = "int" THEN e.v + 1 ELSE IF e.stop = None THEN dim ELSE Val(e.stop)

Taken(e, dim) == Hi(e, dim) - Lo(e, dim)

ProperPartial(e, dim) == 1 < Taken(e, dim) /\ Taken(e, dim) < dim

\* Every element is a slice without a step, within its dimension.
StepFreeSlices(shape, seq) ==
    /\ Len(seq) <= Len(shape)
    /\ \A j \in 1..Len(seq) :
        /\ seq[j].t = "slice"
        /\ seq[j].step = None
        /\ 0 <= Lo(seq[j], shape[j])
        /\ Lo(seq[j], shape[j]) <= Hi(seq[j], shape[j])
        /\ Hi(seq[j], shape[j]) <= shape[j]

(***************************************************************************)
(* C2.  Contiguity rule.  For an index sequence of step-free in-range      *)
(* slices: if two dimensions both have a proper partial slice              *)
(* (1 < taken < dim), __getitem__ raises NotImplementedError; if every     *)
(* dimension after the first is taken whole, it returns a view.            *)
(***************************************************************************)
TwoPartials(shape, seq) ==
    \E a \in 1..Len(seq), b \in 1..Len(seq) :
        /\ a < b
        /\ ProperPartial(seq[a], shape[a])
        /\ ProperPartial(seq[b], shape[b])

LaterWhole(shape, seq) ==
    \A j \in 2..Len(seq) : Taken(seq[j], shape[j]) = shape[j]

\* C2: two proper partial slices are refused with NotImplementedError; a sequence
\* whose later dimensions are all taken whole returns a view.
C2_ContiguityRule ==
    (IsIndexing /\ IsSeqArg /\ StepFreeSlices(Recv.shape, last.arg.seq)) =>
        /\ TwoPartials(Recv.shape, last.arg.seq) =>
               last.res.err = "NotImplementedError"
        /\ LaterWhole(Recv.shape, last.arg.seq) =>
               /\ last.res.err = "none"
               /\ last.viewed

\* C2 is exercised: two proper partial slices were refused.
C2_Witness ==
    /\ last.op = "getitem"
    /\ IsSeqArg
    /\ StepFreeSlices(Recv.shape, last.arg.seq)
    /\ TwoPartials(Recv.shape, last.arg.seq)
    /\ last.res.err = "NotImplementedError"

(***************************************************************************)
(* C3.  Single-integer fast path.  For a shape S of at least one dimension *)
(* and an integer i with 0 <= i < S[0], handle[i] is a view of shape       *)
(* S[1:], of size product(S[1:]), at offset i * product(S[1:]) of the      *)
(* receiver's storage.                                                     *)
(***************************************************************************)
\* C3: handle[i] has shape S[1:], size product(S[1:]) and offset i * product(S[1:]).
C3_FastPath ==
    (/\ last.op = "getitem"
     /\ last.arg.kind = "int"
     /\ Len(handles[1].shape) >= 1
     /\ 0 <= last.arg.i
     /\ last.arg.i < handles[1].shape[1]) =>
        LET S == handles[1].shape
            i == last.arg.i
        IN /\ last.res.err = "none"
           /\ last.res.shape = Tail(S)
           /\ last.res.size = Product(Tail(S))
           /\ last.res.offset = i * Product(Tail(S))
           /\ Len(handles) = 2
           /\ handles[2].shape = Tail(S)
           /\ handles[2].off = handles[1].off + i * Product(Tail(S))

\* C3 is exercised: a row other than the first of an array of two or more dimensions.
C3_Witness ==
    /\ last.op = "getitem"
    /\ last.arg.kind = "int"
    /\ Len(handles[1].shape) >= 2
    /\ last.arg.i >= 1
    /\ last.arg.i < handles[1].shape[1]
    /\ Len(handles) = 2
    /\ handles[2].off > last.arg.i

(***************************************************************************)
(* C5.  Too many indices.  An index sequence longer than the number of     *)
(* dimensions makes __getitem__ and __setitem__ raise IndexError whatever  *)
(* its elements are, and no view is produced.                              *)
(***************************************************************************)
\* C5: more indices than dimensions is IndexError, and nothing is produced.
C5_TooManyIndices ==
    (IsIndexing /\ IsSeqArg /\ Len(last.arg.seq) > Len(Recv.shape)) =>
        /\ last.res.err = "IndexError"
        /\ ~last.viewed
        /\ ~last.copied
        /\ Len(handles) = 1

\* C5 is exercised: a write with too many indices, not all of them integers.
C5_Witness ==
    /\ last.op = "setitem"
    /\ IsSeqArg
    /\ Len(last.arg.seq) > Len(Recv.shape)
    /\ Len(Recv.shape) >= 1
    /\ \E j \in 1..Len(last.arg.seq) : last.arg.seq[j].t # "int"
    /\ last.res.err = "IndexError"

(***************************************************************************)
(* C7.  Validate-then-compute.  A __getitem__ or __setitem__ that fails    *)
(* with IndexError or NotImplementedError has constructed no buffer view,  *)
(* has not called copyto, and leaves the buffer and every handle as they   *)
(* were.                                                                   *)
(***************************************************************************)
\* C7: a step that ends in IndexError or NotImplementedError changes neither the
\* buffer nor the handles, and issues no buffer view and no copyto.
C7_ValidateThenCompute ==
    [][(/\ last'.op \in {"getitem", "setitem"}
        /\ last'.res.err \in {"IndexError", "NotImplementedError"}) =>
           /\ buf' = buf
           /\ handles' = handles
           /\ ~last'.viewed
           /\ ~last'.copied]_vars

\* C7 is exercised: a refused write on a partly written buffer shared by two handles.
C7_Witness ==
    /\ last.op = "setitem"
    /\ last.res.err = "NotImplementedError"
    /\ Len(handles) >= 2
    /\ \E a \in DOMAIN buf : buf[a] = 1
    /\ \E a \in DOMAIN buf : buf[a] = 0

(***************************************************************************)
(* C1.  Slicing addresses the right cells.  For an accepted index          *)
(* expression of in-range integers and step-free slices with               *)
(* 0 <= start < stop <= dim, the view (offset, size) covers exactly the    *)
(* cells of the receiver that the expression selects, in row-major order,  *)
(* so a write through __setitem__ changes those cells and no other.        *)
(***************************************************************************)
InRangeElem(e, dim, nonempty) ==
    /\ e.t \in {"int", "slice"}
    /\ e.step = None
    /\ 0 <= Lo(e, dim)
    /\ IF nonempty \/ e.t = "int" THEN Lo(e, dim) < Hi(e, dim)
                                  ELSE Lo(e, dim) <= Hi(e, dim)
    /\ Hi(e, dim) <= dim

\* The index sequence of the last operation; handle[i] is the sequence <<i>>.
ArgSeq == IF last.arg.kind = "int" THEN <<IntIdx(last.arg.i)>> ELSE last.arg.seq

InRangeArg(shape, nonempty) ==
    /\ last.arg.kind \in {"int", "tuple", "list"}
    /\ Len(ArgSeq) <= Len(shape)
    /\ \A j \in 1..Len(ArgSeq) : InRangeElem(ArgSeq[j], shape[j], nonempty)

\* The flat row-major positions selected by seq from dimension j on, below the
\* position `base` of the dimensions before j.
RECURSIVE SelectedFrom(_, _, _, _)
SelectedFrom(shape, seq, j, base) ==
    IF j > Len(shape) THEN {base}
    ELSE LET e == IF j <= Len(seq) THEN seq[j] ELSE FullSlice
         IN UNION {SelectedFrom(shape, seq, j + 1, base * shape[j] + c) :
                      c \in Lo(e, shape[j])..(Hi(e, shape[j]) - 1)}

Selected(shape, seq) == SelectedFrom(shape, seq, 1, 0)

\* Row-major order is ascending flat position, which is also the order of the
\* view's elements, so covering the selected cells in order is covering the run
\* offset .. offset + size - 1.
\* C1: an accepted in-range expression yields the run of cells it selects, and a
\* write through it changes exactly those cells.
C1_ViewCoversSelection ==
    (IsIndexing /\ InRangeArg(Recv.shape, TRUE) /\ last.res.err = "none") =>
        /\ Selected(Recv.shape, ArgSeq) =
               {Recv.off + last.res.offset + j : j \in 0..(last.res.size - 1)}
        /\ last.op = "setitem" =>
               {a \in DOMAIN buf : buf[a] = 1} = Selected(Recv.shape, ArgSeq)

(***************************************************************************)
(* C4.  Ellipsis expansion terminates.  For an index sequence of length    *)
(* k <= ndim with exactly one Ellipsis, __getitem__ finishes and gives the *)
(* result of the sequence in which the Ellipsis is replaced by             *)
(* ndim - (k - 1) full-range slices.                                       *)
(***************************************************************************)
EllipsisAt(seq) == {j \in 1..Len(seq) : seq[j].t = "ellipsis"}

Replaced(seq, ndim) ==
    LET j == CHOOSE x \in EllipsisAt(seq) : TRUE
    IN SubSeq(seq, 1, j - 1)
       \o [x \in 1..(ndim - (Len(seq) - 1)) |-> FullSlice]
       \o SubSeq(seq, j + 1, Len(seq))

\* C4: a sequence with one Ellipsis finishes with the result of its expansion.
C4_EllipsisExpansion ==
    (/\ IsIndexing
     /\ IsSeqArg
     /\ Len(last.arg.seq) <= Len(Recv.shape)
     /\ Cardinality(EllipsisAt(last.arg.seq)) = 1) =>
        /\ last.res.err # "RuntimeError"
        /\ last.res = GetItemSeq(Recv.shape,
                                 Replaced(last.arg.seq, Len(Recv.shape)),
                                 last.arg.kind, 0)

(***************************************************************************)
(* C6.  Slice step rule.  A slice is refused with NotImplementedError if   *)
(* and only if its step is non-unit: a sequence whose slices have no step  *)
(* or step 1 gives the result of the same sequence without the steps, and  *)
(* a sequence led by a slice with another step is refused.                 *)
(***************************************************************************)
UnitSteps(seq) ==
    \A j \in 1..Len(seq) : seq[j].t = "slice" => seq[j].step \in {None, Some(1)}

StepsErased(seq) ==
    [j \in 1..Len(seq) |->
        IF seq[j].t = "slice"
        THEN SliceIdx(seq[j].start, seq[j].stop, None)
        ELSE seq[j]]

\* C6: steps None and 1 are accepted as the plain range; another step is refused.
C6_SliceStepRule ==
    (/\ IsIndexing
     /\ IsSeqArg
     /\ Len(last.arg.seq) >= 1
     /\ Len(last.arg.seq) <= Len(Recv.shape)) =>
        /\ UnitSteps(last.arg.seq) =>
               last.res = GetItemSeq(Recv.shape, StepsErased(last.arg.seq),
                                     last.arg.kind, 0)
        /\ (/\ last.arg.seq[1].t = "slice"
            /\ last.arg.seq[1].step \notin {None, Some(1)}) =>
               last.res.err = "NotImplementedError"

(***************************************************************************)
(* C8.  view() is an exact alias.  Whatever has been written, the host     *)
(* array of h.view() equals the host array of h: same shape, same element  *)
(* kind (boolean for a handle made from boolean data), same values.        *)
(***************************************************************************)
\* C8: every handle made by view() materializes exactly as the handle it came from.
C8_ViewIsAlias ==
    \A v \in 1..Len(handles) :
        (/\ handles[v].how = "view"
         /\ InBuffer(buf, handles[v])
         /\ InBuffer(buf, handles[handles[v].parent])) =>
            Array(buf, handles[v]) = Array(buf, handles[handles[v].parent])

(***************************************************************************)
(* C9.  Buffer extent.  A view made by __getitem__ with integers in        *)
(* [0, dim) and slices with 0 <= start <= stop <= dim lies inside the      *)
(* storage of its receiver: offset + size(view) <= size(receiver).         *)
(***************************************************************************)
\* C9: offset + size of a view made with in-range indices is within the receiver.
C9_BufferExtent ==
    (/\ last.op = "getitem"
     /\ InRangeArg(Recv.shape, FALSE)
     /\ last.res.err = "none") =>
        last.res.offset + last.res.size <= Product(Recv.shape)

(***************************************************************************)
(* C10.  Reflected operators keep operand order.  x - h, x / h and x ** h  *)
(* reach the elementwise layer with x first and the handle second, and no  *)
(* plain or reflected operator passes an output target.                    *)
(***************************************************************************)
\* C10: the reflected non-commutative hooks pass (other, self); no plain or
\* reflected hook passes an output target.
C10_ReflectedOrder ==
    last.op = "operator" =>
        /\ last.method \in {"__rsub__", "__rdiv__", "__rpow__"} =>
               /\ last.call.a = "other"
               /\ last.call.b = "self"
        /\ last.method \in Plain \cup Reflected => last.call.out = "none"

====
